---------------------------- MODULE Spec2Model ----------------------------
(***************************************************************************)
(* A model of src/main.py: the assistant bot's Field/Record/AddressBook    *)
(* classes, the input_error wrapper, the command handlers and the main     *)
(* loop.                                                                   *)
(*                                                                         *)
(* A Python str is a sequence of characters; a character is a one-element  *)
(* TLA+ string, and a character outside ASCII is named by its code point   *)
(* ("U+0663" is ARABIC-INDIC DIGIT THREE).  A Python date is a record      *)
(* [y, m, d].  A raised exception is a value with field exc # "none".      *)
(***************************************************************************)
EXTENDS Integers, Sequences, FiniteSets, TLC

VARIABLES
    book,      \* AddressBook.data: the records, in insertion order (key = name)
    pc,        \* main(): "input" (at line 199), "done" (after break), "crashed"
    line,      \* the last string input() returned
    out,       \* what the last loop iteration printed
    call,      \* the last direct call of a method or handler: [op, args, day]
    ret,       \* what that call returned or raised
    everAdded  \* history: the names some add command has answered "Contact added." or "Contact updated."

vars == <<book, pc, line, out, call, ret, everAdded>>

-----------------------------------------------------------------------------
(* Characters and strings                                                  *)

AsciiDigits == {"0", "1", "2", "3", "4", "5", "6", "7", "8", "9"}

\* A decimal digit outside ASCII (Unicode category Nd).
ArabicIndicThree == "U+0663"

Whitespace == {" "}

\* str.isdigit() on one character.
IsDigitChar(c) == c \in AsciiDigits \cup {ArabicIndicThree}

\* str.isdigit(): a non-empty string of digit characters.
IsDigit(s) == Len(s) > 0 /\ \A i \in 1..Len(s) : IsDigitChar(s[i])

\* int() of one decimal digit character.
DigitVal(c) ==
    CASE c = "0" -> 0 [] c = "1" -> 1 [] c = "2" -> 2 [] c = "3" -> 3
      [] c = "4" -> 4 [] c = "5" -> 5 [] c = "6" -> 6 [] c = "7" -> 7
      [] c = "8" -> 8 [] c = "9" -> 9 [] c = ArabicIndicThree -> 3
      [] OTHER -> 0

\* The ASCII digit character of n in 0..9.
DigitChar(n) ==
    CASE n = 0 -> "0" [] n = 1 -> "1" [] n = 2 -> "2" [] n = 3 -> "3"
      [] n = 4 -> "4" [] n = 5 -> "5" [] n = 6 -> "6" [] n = 7 -> "7"
      [] n = 8 -> "8" [] OTHER -> "9"

\* int() of a string of decimal digits, surrounding whitespace stripped.
IntOf(s) ==
    LET digits == SelectSeq(s, LAMBDA c : c \notin Whitespace)
        v[i \in 0..Len(digits)] ==
            IF i = 0 THEN 0 ELSE v[i - 1] * 10 + DigitVal(digits[i])
    IN  v[Len(digits)]

\* str.lower() on one character, for the letters the inputs use.
LowerChar(c) ==
    CASE c = "A" -> "a" [] c = "B" -> "b" [] c = "C" -> "c" [] c = "D" -> "d"
      [] c = "E" -> "e" [] c = "I" -> "i" [] c = "L" -> "l" [] c = "O" -> "o"
      [] c = "S" -> "s" [] c = "T" -> "t" [] c = "X" -> "x"
      [] OTHER -> c

\* str.lower().
Lower(s) == [i \in 1..Len(s) |-> LowerChar(s[i])]

\* str.split() with no separator: the maximal runs of non-whitespace, in order.
Split(s) ==
    LET isWord(i) == i >= 1 /\ i <= Len(s) /\ s[i] \notin Whitespace
        starts == {i \in 1..Len(s) : isWord(i) /\ ~isWord(i - 1)}
        stop(i) == CHOOSE j \in i..Len(s) :
                       /\ \A k \in i..j : isWord(k)
                       /\ ~isWord(j + 1)
        nth(n) == CHOOSE i \in starts : Cardinality({k \in starts : k < i}) = n - 1
    IN  [n \in 1..Cardinality(starts) |-> SubSeq(s, nth(n), stop(nth(n)))]

\* sep.join(parts).
Join(sep, parts) ==
    LET j[i \in 0..Len(parts)] ==
            IF i = 0 THEN <<>>
            ELSE IF i = 1 THEN parts[1]
            ELSE j[i - 1] \o sep \o parts[i]
    IN  j[Len(parts)]

-----------------------------------------------------------------------------
(* datetime.date                                                           *)

IsLeap(y) == y % 4 = 0 /\ (y % 100 # 0 \/ y % 400 = 0)

DaysInMonth(y, m) ==
    IF m = 2 THEN (IF IsLeap(y) THEN 29 ELSE 28)
    ELSE IF m \in {4, 6, 9, 11} THEN 30 ELSE 31

\* The date constructor's range check (MINYEAR = 1, MAXYEAR = 9999).
ValidDate(y, m, d) ==
    y \in 1..9999 /\ m \in 1..12 /\ d >= 1 /\ d <= DaysInMonth(y, m)

\* _days_before_month: the days of the year before month m.
DaysBeforeMonth(y, m) ==
    <<0, 31, 59, 90, 120, 151, 181, 212, 243, 273, 304, 334>>[m]
        + (IF m > 2 /\ IsLeap(y) THEN 1 ELSE 0)

DaysBeforeYear(y) ==
    (y - 1) * 365 + ((y - 1) \div 4) - ((y - 1) \div 100) + ((y - 1) \div 400)

\* date.toordinal().
ToOrdinal(dt) == DaysBeforeYear(dt.y) + DaysBeforeMonth(dt.y, dt.m) + dt.d

\* date.weekday(): Monday is 0, Saturday 5, Sunday 6.
Weekday(dt) == (ToOrdinal(dt) + 6) % 7

\* The date that is day r of year y.
DayOfYear(y, r) ==
    LET m == CHOOSE mm \in 1..12 :
                 DaysBeforeMonth(y, mm) < r /\ r <= DaysBeforeMonth(y, mm) + DaysInMonth(y, mm)
    IN  [y |-> y, m |-> m, d |-> r - DaysBeforeMonth(y, m)]

\* The year that holds ordinal n.
YearOfOrdinal(n) ==
    CHOOSE yy \in (n \div 366)..(n \div 365 + 1) :
        DaysBeforeYear(yy) < n /\ n <= DaysBeforeYear(yy + 1)

\* date.fromordinal(n).
FromOrdinal(n) == DayOfYear(YearOfOrdinal(n), n - DaysBeforeYear(YearOfOrdinal(n)))

\* date + timedelta(days=k).
AddDays(dt, k) == FromOrdinal(ToOrdinal(dt) + k)

\* a < b on dates.
DateLess(a, b) == ToOrdinal(a) < ToOrdinal(b)

\* A replace that moves 29 February to 28 February in a common year and never raises.
ReplaceYearClamped(dt, y) ==
    [exc |-> "none",
     date |-> [y |-> y, m |-> dt.m,
               d |-> IF dt.d > DaysInMonth(y, dt.m) THEN DaysInMonth(y, dt.m) ELSE dt.d]]

\* date.replace(year=y): the date, or ValueError when it does not exist.
ReplaceYear(dt, y) ==
    IF ValidDate(y, dt.m, dt.d)
    THEN [exc |-> "none", date |-> [dt EXCEPT !.y = y]]
    ELSE [exc |-> "ValueError", date |-> dt]

\* The fields of s between the positions dots of its "." characters.
FieldsAt(s, dots) ==
    LET ends == dots \cup {Len(s) + 1}
        start(i) == IF \E j \in dots : j < i
                    THEN 1 + CHOOSE j \in dots : j < i /\ \A k \in dots : k < i => k <= j
                    ELSE 1
        nth(n) == CHOOSE i \in ends : Cardinality({j \in dots : j < i}) = n - 1
    IN  [n \in 1..(Cardinality(dots) + 1) |-> SubSeq(s, start(nth(n)), nth(n) - 1)]

\* The fields of s between its "." characters.
DotFields(s) == FieldsAt(s, {i \in 1..Len(s) : s[i] = "."})

\* _strptime's pattern for %d: 3[0-1]|[1-2]\d|0[1-9]|[1-9]| [1-9]
MatchDay(f) ==
    \/ Len(f) = 2 /\ f[1] = "3" /\ f[2] \in {"0", "1"}
    \/ Len(f) = 2 /\ f[1] \in {"1", "2"} /\ IsDigitChar(f[2])
    \/ Len(f) = 2 /\ f[1] \in {"0", " "} /\ f[2] \in AsciiDigits \ {"0"}
    \/ Len(f) = 1 /\ f[1] \in AsciiDigits \ {"0"}

\* _strptime's pattern for %m: 1[0-2]|0[1-9]|[1-9]
MatchMonth(f) ==
    \/ Len(f) = 2 /\ f[1] = "1" /\ f[2] \in {"0", "1", "2"}
    \/ Len(f) = 2 /\ f[1] = "0" /\ f[2] \in AsciiDigits \ {"0"}
    \/ Len(f) = 1 /\ f[1] \in AsciiDigits \ {"0"}

\* _strptime's pattern for %Y: \d\d\d\d
MatchYear(f) == Len(f) = 4 /\ \A i \in 1..4 : IsDigitChar(f[i])

\* The date of the three matched fields, or ValueError when there is no such date.
DateOfFields(y, m, d) ==
    IF ValidDate(y, m, d)
    THEN [exc |-> "none", date |-> [y |-> y, m |-> m, d |-> d]]
    ELSE [exc |-> "ValueError", date |-> [y |-> 0, m |-> 0, d |-> 0]]

\* The pattern of "%d.%m.%Y" on the fields f, and the date it gives.
StrptimeFields(f) ==
    IF Len(f) # 3
    THEN [exc |-> "ValueError", date |-> [y |-> 0, m |-> 0, d |-> 0]]
    ELSE IF ~(MatchDay(f[1]) /\ MatchMonth(f[2]) /\ MatchYear(f[3]))
    THEN [exc |-> "ValueError", date |-> [y |-> 0, m |-> 0, d |-> 0]]
    ELSE DateOfFields(IntOf(f[3]), IntOf(f[2]), IntOf(f[1]))

\* datetime.strptime(s, "%d.%m.%Y").date(): the date, or ValueError.
Strptime(s) == StrptimeFields(DotFields(s))

\* n as k decimal digits, zero padded.
Pad(n, k) == [i \in 1..k |-> DigitChar((n \div (10 ^ (k - i))) % 10)]

\* date.strftime("%d.%m.%Y").
Strftime(dt) == Pad(dt.d, 2) \o <<".">> \o Pad(dt.m, 2) \o <<".">> \o Pad(dt.y, 4)

-----------------------------------------------------------------------------
(* Field, Phone, Birthday, Record                                          *)

\* Python's None where a Birthday may stand (Record.birthday).
NoBirthday == [some |-> FALSE, value |-> <<>>]

\* The outcome of a constructor or method that returns nothing useful.
Ok(v) == [exc |-> "none", msg |-> "", value |-> v]

Raise(e, m, v) == [exc |-> e, msg |-> m, value |-> v]

\* Phone.__init__: the Phone's value, or ValueError.
Phone(value) ==
    IF ~(IsDigit(value) /\ Len(value) = 10)
    THEN Raise("ValueError", "Phone number must contain exactly 10 digits", value)
    ELSE Ok(value)

\* Birthday.__init__: the Birthday, or ValueError.
Birthday(value) ==
    IF Strptime(value).exc # "none"
    THEN Raise("ValueError", "Invalid date format. Use DD.MM.YYYY", NoBirthday)
    ELSE Ok([some |-> TRUE, value |-> value])

\* Record.__init__.
Record(name) == [name |-> name, phones |-> <<>>, birthday |-> NoBirthday]

\* Record.add_phone: the record afterwards, or the exception and the record as it is.
add_phone(rec, phone) ==
    LET p == Phone(phone)
    IN  IF p.exc # "none" THEN Raise(p.exc, p.msg, rec)
        ELSE Ok([rec EXCEPT !.phones = Append(@, p.value)])

\* Record.remove_phone.
remove_phone(rec, phone) ==
    Ok([rec EXCEPT !.phones = SelectSeq(@, LAMBDA p : p # phone)])

\* The index of the first stored phone equal to phone, 0 when there is none.
FirstIndex(phones, phone) ==
    LET hits == {i \in 1..Len(phones) : phones[i] = phone}
    IN  IF hits = {} THEN 0 ELSE CHOOSE i \in hits : \A j \in hits : i <= j

\* An edit_phone that stores new_phone as it is, without constructing a Phone.
edit_phone_unvalidated(rec, old_phone, new_phone) ==
    IF \A i \in 1..Len(rec.phones) : rec.phones[i] # old_phone
    THEN Raise("ValueError", "Phone not found", rec)
    ELSE Ok([rec EXCEPT !.phones[CHOOSE i \in 1..Len(rec.phones) :
                                     /\ rec.phones[i] = old_phone
                                     /\ \A j \in 1..(i - 1) : rec.phones[j] # old_phone]
                                 = new_phone])

\* Record.edit_phone.
edit_phone(rec, old_phone, new_phone) ==
    LET i == FirstIndex(rec.phones, old_phone)
        p == Phone(new_phone)
    IN  IF i = 0 THEN Raise("ValueError", "Phone not found", rec)
        ELSE IF p.exc # "none" THEN Raise(p.exc, p.msg, rec)
        ELSE Ok([rec EXCEPT !.phones[i] = p.value])

\* Record.find_phone: whether a Phone is returned (and not None), and its value.
find_phone(rec, phone) ==
    LET i == FirstIndex(rec.phones, phone)
    IN  IF i = 0 THEN [found |-> FALSE, value |-> <<>>]
        ELSE [found |-> TRUE, value |-> rec.phones[i]]

\* Record.add_birthday.
add_birthday(rec, birthday) ==
    LET b == Birthday(birthday)
    IN  IF b.exc # "none" THEN Raise(b.exc, b.msg, rec)
        ELSE Ok([rec EXCEPT !.birthday = b.value])

\* Record.__str__.
RecordStr(rec) ==
    <<"C", "o", "n", "t", "a", "c", "t", " ", "n", "a", "m", "e", ":", " ">> \o rec.name
    \o <<",", " ", "p", "h", "o", "n", "e", "s", ":", " ">> \o Join(<<";", " ">>, rec.phones)
    \o <<",", " ", "b", "i", "r", "t", "h", "d", "a", "y", ":", " ">>
    \o (IF rec.birthday.some THEN rec.birthday.value ELSE <<"N", "o", "n", "e">>)

-----------------------------------------------------------------------------
(* AddressBook                                                             *)

\* The position of the record stored under key name, 0 when there is none.
IndexOf(data, name) ==
    IF \E i \in 1..Len(data) : data[i].name = name
    THEN CHOOSE i \in 1..Len(data) : data[i].name = name
    ELSE 0

\* AddressBook.add_record: a dict assignment (a new key goes last, an old key keeps its place).
add_record(data, record) ==
    LET i == IndexOf(data, record.name)
    IN  IF i = 0 THEN Append(data, record) ELSE [data EXCEPT ![i] = record]

\* AddressBook.delete.
delete(data, name) == SelectSeq(data, LAMBDA r : r.name # name)

\* A shift of one day for Saturday and Sunday alike.
CongratDateOneDay(occurrence) ==
    IF Weekday(occurrence) \in {5, 6} THEN AddDays(occurrence, 1) ELSE occurrence

\* Lines 95-99: the congratulation date of an occurrence.
CongratDate(occurrence) ==
    IF Weekday(occurrence) = 5 THEN AddDays(occurrence, 2)
    ELSE IF Weekday(occurrence) = 6 THEN AddDays(occurrence, 1)
    ELSE occurrence

\* Lines 89-90: the roll-forward of bday_this_year (this), or its ValueError.
RollForward(this, day) ==
    IF this.exc # "none" THEN this
    ELSE IF DateLess(this.date, day) THEN ReplaceYear(this.date, day.y + 1)
    ELSE this

\* Lines 86-90: bday_this_year after the roll-forward, or ValueError.
Occurrence(rec, day) ==
    RollForward(ReplaceYear(Strptime(rec.birthday.value).date, day.y), day)

\* Line 94: the inclusion test on delta.
InWindow(delta) == 0 <= delta /\ delta <= 7

\* Lines 92-104 for the occurrence occ of rec: the exception raised, or whether an
\* entry is appended, and the entry.
VisitOccurrence(rec, day, occ) ==
    IF occ.exc # "none"
    THEN [exc |-> occ.exc, hit |-> FALSE, entry |-> <<>>]
    ELSE IF ~InWindow(ToOrdinal(occ.date) - ToOrdinal(day))
    THEN [exc |-> "none", hit |-> FALSE, entry |-> <<>>]
    ELSE [exc |-> "none", hit |-> TRUE,
          entry |-> [name |-> rec.name,
                     birthday |-> Strftime(CongratDate(occ.date))]]

\* Lines 86-104 for one record that has a birthday.
Visit(rec, day) == VisitOccurrence(rec, day, Occurrence(rec, day))

\* The result so far (acc) after a visit v.
AfterVisit(acc, v) ==
    IF v.exc # "none" THEN Raise(v.exc, "day is out of range for month", <<>>)
    ELSE IF v.hit THEN Ok(Append(acc.value, v.entry))
    ELSE acc

\* One iteration of the loop of lines 82-104, from the result so far.
LoopStep(acc, rec, day) ==
    IF acc.exc # "none" THEN acc
    ELSE IF ~rec.birthday.some THEN acc
    ELSE AfterVisit(acc, Visit(rec, day))

\* AddressBook.get_upcoming_birthdays, with datetime.today().date() = day: the loop
\* over self.data.values().
get_upcoming_birthdays(data, day) ==
    LET loop[i \in 0..Len(data)] ==
            IF i = 0 THEN Ok(<<>>) ELSE LoopStep(loop[i - 1], data[i], day)
    IN  loop[Len(data)]

\* AddressBook.__str__.
BookStr(data) == Join(<<"U+000A">>, [i \in 1..Len(data) |-> RecordStr(data[i])])

-----------------------------------------------------------------------------
(* input_error and the command handlers                                    *)

\* A returned string: one of the program's literals, or a string it computed.
Lit(m) == [lit |-> m, str |-> <<>>]

Text(s) == [lit |-> "", str |-> s]

\* What a handler did: the exception it raised (or "none"), what it returned, the book afterwards.
Returns(r, data) == [exc |-> "none", msg |-> "", ret |-> r, data |-> data]

Raises(e, m, data) == [exc |-> e, msg |-> m, ret |-> Lit(""), data |-> data]

\* The wrapper of input_error around a handler's outcome h.
input_error(h) ==
    IF h.exc = "ValueError" THEN Returns(Lit(h.msg), h.data)
    ELSE IF h.exc = "IndexError" THEN Returns(Lit("Not enough arguments."), h.data)
    ELSE IF h.exc = "KeyError" THEN Returns(Lit("Contact not found."), h.data)
    ELSE h

\* The ValueError of unpacking args into n names (its counts left out of the text), or "none".
Unpack(args, n) ==
    IF Len(args) < n THEN "not enough values to unpack"
    ELSE IF Len(args) > n THEN "too many values to unpack"
    ELSE "none"

\* add_contact, undecorated.
add_contact_body(args, data) ==
    IF Unpack(args, 2) # "none" THEN Raises("ValueError", Unpack(args, 2), data)
    ELSE LET name == args[1]
             phone == args[2]
             i == IndexOf(data, name)
         IN  IF i = 0
             THEN LET data1 == add_record(data, Record(name))
                      j == IndexOf(data1, name)
                      r == add_phone(data1[j], phone)
                  IN  IF r.exc # "none" THEN Raises(r.exc, r.msg, data1)
                      ELSE Returns(Lit("Contact added."), [data1 EXCEPT ![j] = r.value])
             ELSE LET r == add_phone(data[i], phone)
                  IN  IF r.exc # "none" THEN Raises(r.exc, r.msg, data)
                      ELSE Returns(Lit("Contact updated."), [data EXCEPT ![i] = r.value])

add_contact(args, data) == input_error(add_contact_body(args, data))

\* change_contact, undecorated.
change_contact_body(args, data) ==
    IF Unpack(args, 3) # "none" THEN Raises("ValueError", Unpack(args, 3), data)
    ELSE LET i == IndexOf(data, args[1])
         IN  IF i = 0 THEN Raises("KeyError", "", data)
             ELSE LET r == edit_phone(data[i], args[2], args[3])
                  IN  IF r.exc # "none" THEN Raises(r.exc, r.msg, data)
                      ELSE Returns(Lit("Phone updated."), [data EXCEPT ![i] = r.value])

change_contact(args, data) == input_error(change_contact_body(args, data))

\* show_phone, undecorated.
show_phone_body(args, data) ==
    IF Len(args) = 0 THEN Raises("IndexError", "list index out of range", data)
    ELSE LET i == IndexOf(data, args[1])
         IN  IF i = 0 THEN Raises("KeyError", "", data)
             ELSE Returns(Text(Join(<<";", " ">>, data[i].phones)), data)

show_phone(args, data) == input_error(show_phone_body(args, data))

\* show_all, undecorated.
show_all_body(args, data) ==
    IF data # <<>> THEN Returns(Text(BookStr(data)), data)
    ELSE Returns(Lit("No contacts."), data)

show_all(args, data) == input_error(show_all_body(args, data))

\* add_birthday (the handler), undecorated.
add_birthday_body(args, data) ==
    IF Unpack(args, 2) # "none" THEN Raises("ValueError", Unpack(args, 2), data)
    ELSE LET i == IndexOf(data, args[1])
         IN  IF i = 0 THEN Raises("KeyError", "", data)
             ELSE LET r == add_birthday(data[i], args[2])
                  IN  IF r.exc # "none" THEN Raises(r.exc, r.msg, data)
                      ELSE Returns(Lit("Birthday added."), [data EXCEPT ![i] = r.value])

add_birthday_cmd(args, data) == input_error(add_birthday_body(args, data))

\* show_birthday, undecorated.
show_birthday_body(args, data) ==
    IF Len(args) = 0 THEN Raises("IndexError", "list index out of range", data)
    ELSE LET i == IndexOf(data, args[1])
         IN  IF i = 0 \/ ~data[i].birthday.some
             THEN Returns(Lit("Birthday not set."), data)
             ELSE Returns(Text(data[i].birthday.value), data)

show_birthday(args, data) == input_error(show_birthday_body(args, data))

\* One line of the birthdays handler's answer: f"{u['name']} — {u['birthday']}".
UpcomingLine(u) == u.name \o <<" ", "U+2014", " ">> \o u.birthday

\* Lines 189-191: the handler's answer to what get_upcoming_birthdays gave.
AnswerUpcoming(upcoming, data) ==
    IF upcoming.exc # "none" THEN Raises(upcoming.exc, upcoming.msg, data)
    ELSE IF upcoming.value = <<>>
    THEN Returns(Lit("No birthdays in the next 7 days."), data)
    ELSE Returns(Text(Join(<<"U+000A">>,
             [i \in 1..Len(upcoming.value) |-> UpcomingLine(upcoming.value[i])])), data)

\* birthdays, undecorated, with datetime.today().date() = day.
birthdays_body(args, data, day) ==
    AnswerUpcoming(get_upcoming_birthdays(data, day), data)

birthdays(args, data, day) == input_error(birthdays_body(args, data, day))

\* parse_input: [exc, command, args]; unpacking an empty split() raises ValueError.
parse_input(user_input) ==
    LET toks == Split(user_input)
    IN  IF toks = <<>> THEN [exc |-> "ValueError", command |-> <<>>, args |-> <<>>]
        ELSE [exc |-> "none", command |-> Lower(toks[1]), args |-> Tail(toks)]

-----------------------------------------------------------------------------
(* Inputs                                                                  *)

\* The most phones the model lets one record hold (the code has no limit).
MaxPhones == 2

\* How many consecutive values of today, from each of FirstDay and SecondDay on,
\* the queries are asked on.
NumDays == 16

\* The turn of a non-leap year into a leap year, and the end of the leap year's February.
FirstDay == [y |-> 2023, m |-> 12, d |-> 20]
SecondDay == [y |-> 2024, m |-> 2, d |-> 20]

Todays ==
    {AddDays(FirstDay, k) : k \in 0..(NumDays - 1)}
        \cup {AddDays(SecondDay, k) : k \in 0..(NumDays - 1)}

Ann == <<"A", "n", "n">>
Bob == <<"B", "o", "b">>
Names == {Ann, Bob}

\* Two well-formed phones, and ten digits of which the last is not ASCII.
P1 == <<"5", "5", "5", "0", "0", "0", "0", "0", "0", "1">>
P2 == <<"5", "5", "5", "0", "0", "0", "0", "0", "0", "2">>
PU == <<"5", "5", "5", "0", "0", "0", "0", "0", "0", ArabicIndicThree>>
\* Strings of the wrong length, and ten characters that are not all digits.
PShort == <<"1", "2", "3">>
PLong == <<"5", "5", "5", "0", "0", "0", "0", "0", "0", "1", "1">>
PAlpha == <<"5", "5", "5", "0", "0", "0", "0", "0", "a", "b">>

PhoneInputs == {P1, P2, PU, PShort, PLong, PAlpha, <<>>}

\* Birthdays: a Tuesday, 29 February, a Saturday, a Sunday, the year's last day
\* (a Sunday in 2023), an unpadded 1 March, and three strings strptime rejects.
BTue == <<"0", "2", ".", "0", "1", ".", "1", "9", "9", "0">>
BLeap == <<"2", "9", ".", "0", "2", ".", "2", "0", "0", "0">>
BSat == <<"0", "6", ".", "0", "1", ".", "2", "0", "0", "1">>
BSun == <<"0", "7", ".", "0", "1", ".", "1", "9", "9", "5">>
BEnd == <<"3", "1", ".", "1", "2", ".", "1", "9", "8", "0">>
BMar == <<"1", ".", "3", ".", "1", "9", "9", "9">>
BBad1 == <<"3", "0", ".", "0", "2", ".", "2", "0", "2", "3">>
BBad2 == <<"2", "9", ".", "0", "2", ".", "2", "0", "2", "3">>
BBad3 == <<"2", "0", "2", "4", "-", "0", "1", "-", "0", "1">>

BirthdayInputs == {BTue, BLeap, BSat, BSun, BEnd, BMar, BBad1, BBad2, BBad3}

cAdd == <<"a", "d", "d">>
cChange == <<"c", "h", "a", "n", "g", "e">>
cPhone == <<"p", "h", "o", "n", "e">>
cAll == <<"a", "l", "l">>
cAddBirthday == <<"a", "d", "d", "-", "b", "i", "r", "t", "h", "d", "a", "y">>
cShowBirthday == <<"s", "h", "o", "w", "-", "b", "i", "r", "t", "h", "d", "a", "y">>
cBirthdays == <<"b", "i", "r", "t", "h", "d", "a", "y", "s">>
cHello == <<"h", "e", "l", "l", "o">>
cClose == <<"c", "l", "o", "s", "e">>
cExit == <<"e", "x", "i", "t">>

\* A line typed with single spaces between its words.
Typed(words) == Join(<<" ">>, words)

\* The lines input() may return.
Lines ==
    { <<>>, <<" ", " ">>,
      Typed(<<cHello>>), Typed(<<cExit>>), Typed(<<cClose>>), Typed(<<<<"E", "X", "I", "T">>>>),
      Typed(<<<<"f", "o", "o">>>>), Typed(<<cBirthdays>>), Typed(<<cAll>>),
      <<" ">> \o Typed(<<cAll>>) \o <<" ">>,
      Typed(<<cAdd>>), Typed(<<cAdd, Ann>>), Typed(<<cAdd, Ann, P1, P2>>),
      Typed(<<cAdd, Ann, P1>>), Typed(<<cAdd, Ann, P2>>), Typed(<<cAdd, Ann, PU>>),
      Typed(<<cAdd, Ann, PShort>>), Typed(<<<<"A", "d", "d">>, Bob, P1>>),
      Typed(<<cAdd, Bob, PAlpha>>),
      Typed(<<cChange>>), Typed(<<cChange, Ann, P1>>),
      Typed(<<cChange, Ann, P1, P2>>), Typed(<<cChange, Ann, P2, P1>>),
      Typed(<<cChange, Ann, P1, PLong>>), Typed(<<cChange, Bob, P2, P1>>),
      Typed(<<cPhone>>), Typed(<<cPhone, Ann>>), Typed(<<cPhone, Bob>>),
      Typed(<<cAddBirthday>>), Typed(<<cAddBirthday, Ann>>),
      Typed(<<cAddBirthday, Ann, BSat>>), Typed(<<cAddBirthday, Ann, BBad1>>),
      Typed(<<cAddBirthday, Bob, BSat>>),
      Typed(<<cShowBirthday>>), Typed(<<cShowBirthday, Ann>>) }

\* parse_input of each line.
Parsed == [ln \in Lines |-> parse_input(ln)]

-----------------------------------------------------------------------------
(* main: one action per branch of the loop                                 *)

NoOutput == [printed |-> FALSE, val |-> Lit("")]

Printed(v) == [printed |-> TRUE, val |-> v]

\* The date field of a call that does not read datetime.today().
NoDay == [y |-> 0, m |-> 0, d |-> 0]

NoCall == [op |-> "none", args |-> <<>>, day |-> NoDay]

\* The handler field of a call that is not a decorated handler's.
NoHandler == [exc |-> "none", ret |-> Lit("")]

NoRet == [exc |-> "none", msg |-> "", value |-> <<>>, handler |-> NoHandler]

\* The commands main dispatches (lines 202-218).
Dispatched ==
    {cClose, cExit, cHello, cAdd, cChange, cPhone, cAll, cAddBirthday, cShowBirthday}

Bounded(data) == \A i \in 1..Len(data) : Len(data[i].phones) <= MaxPhones

Init ==
    /\ book = <<>>
    /\ pc = "input"
    /\ line = <<>>
    /\ out = NoOutput
    /\ call = NoCall
    /\ ret = NoRet
    /\ everAdded = {}

\* print(handler(args, book)) and back to input(); an exception the wrapper lets through ends main.
Finish(ln, h) ==
    /\ line' = ln
    /\ book' = h.data
    /\ IF h.exc = "none"
       THEN pc' = "input" /\ out' = Printed(h.ret)
       ELSE pc' = "crashed" /\ out' = NoOutput
    /\ UNCHANGED <<call, ret>>

\* Line 200: parse_input raises on a line with no words, and nothing in main catches it.
ParseFails ==
    /\ pc = "input"
    /\ \E ln \in Lines :
        /\ Parsed[ln].exc # "none"
        /\ line' = ln
        /\ pc' = "crashed"
        /\ out' = NoOutput
    /\ UNCHANGED <<book, call, ret, everAdded>>

\* Lines 202-204.
CmdExit ==
    /\ pc = "input"
    /\ \E ln \in Lines :
        /\ Parsed[ln].exc = "none"
        /\ Parsed[ln].command \in {cClose, cExit}
        /\ line' = ln
        /\ pc' = "done"
        /\ out' = Printed(Lit("Good bye!"))
    /\ UNCHANGED <<book, call, ret, everAdded>>

\* Lines 205-206.
CmdHello ==
    /\ pc = "input"
    /\ \E ln \in Lines :
        /\ Parsed[ln].exc = "none"
        /\ Parsed[ln].command = cHello
        /\ Finish(ln, Returns(Lit("How can I help you?"), book))
    /\ UNCHANGED everAdded

\* print(add_contact(args, book)), and the history of the names added.
AddFinish(ln, p, h) ==
    /\ Bounded(h.data)
    /\ Finish(ln, h)
    /\ everAdded' =
         IF h.exc = "none" /\ h.ret \in {Lit("Contact added."), Lit("Contact updated.")}
         THEN everAdded \cup {p.args[1]}
         ELSE everAdded

\* Lines 207-208.
CmdAdd ==
    /\ pc = "input"
    /\ \E ln \in Lines :
        /\ Parsed[ln].exc = "none"
        /\ Parsed[ln].command = cAdd
        /\ AddFinish(ln, Parsed[ln], add_contact(Parsed[ln].args, book))

\* Lines 209-210.
CmdChange ==
    /\ pc = "input"
    /\ \E ln \in Lines :
        /\ Parsed[ln].exc = "none"
        /\ Parsed[ln].command = cChange
        /\ Finish(ln, change_contact(Parsed[ln].args, book))
    /\ UNCHANGED everAdded

\* Lines 211-212.
CmdPhone ==
    /\ pc = "input"
    /\ \E ln \in Lines :
        /\ Parsed[ln].exc = "none"
        /\ Parsed[ln].command = cPhone
        /\ Finish(ln, show_phone(Parsed[ln].args, book))
    /\ UNCHANGED everAdded

\* Lines 213-214.
CmdAll ==
    /\ pc = "input"
    /\ \E ln \in Lines :
        /\ Parsed[ln].exc = "none"
        /\ Parsed[ln].command = cAll
        /\ Finish(ln, show_all(Parsed[ln].args, book))
    /\ UNCHANGED everAdded

\* Lines 215-216.
CmdAddBirthday ==
    /\ pc = "input"
    /\ \E ln \in Lines :
        /\ Parsed[ln].exc = "none"
        /\ Parsed[ln].command = cAddBirthday
        /\ Finish(ln, add_birthday_cmd(Parsed[ln].args, book))
    /\ UNCHANGED everAdded

\* Lines 217-218.
CmdShowBirthday ==
    /\ pc = "input"
    /\ \E ln \in Lines :
        /\ Parsed[ln].exc = "none"
        /\ Parsed[ln].command = cShowBirthday
        /\ Finish(ln, show_birthday(Parsed[ln].args, book))
    /\ UNCHANGED everAdded

\* No branch of the if/elif chain matches: the iteration prints nothing.
CmdUnmatched ==
    /\ pc = "input"
    /\ \E ln \in Lines :
        /\ Parsed[ln].exc = "none"
        /\ Parsed[ln].command \notin Dispatched
        /\ line' = ln
        /\ pc' = "input"
        /\ out' = NoOutput
    /\ UNCHANGED <<book, call, ret, everAdded>>

Next ==
    \/ ParseFails
    \/ CmdExit
    \/ CmdHello
    \/ CmdAdd
    \/ CmdChange
    \/ CmdPhone
    \/ CmdAll
    \/ CmdAddBirthday
    \/ CmdShowBirthday
    \/ CmdUnmatched

\* main(), from book = AddressBook() on.
Spec == Init /\ [][Next]_vars

-----------------------------------------------------------------------------
(* The Record methods, called directly on one record                       *)

InitRecord ==
    /\ book = <<Record(Ann)>>
    /\ pc = "record"
    /\ line = <<>>
    /\ out = NoOutput
    /\ call = NoCall
    /\ ret = NoRet
    /\ everAdded = {}

\* A method of book[1] was called with args and ended as r.
Called(op, args, r, value) ==
    /\ book' = <<r.value>>
    /\ call' = [op |-> op, args |-> args, day |-> NoDay]
    /\ ret' = [exc |-> r.exc, msg |-> r.msg, value |-> value, handler |-> NoHandler]
    /\ UNCHANGED <<pc, line, out, everAdded>>

CallAddPhone ==
    /\ pc = "record"
    /\ \E p \in PhoneInputs :
        /\ Bounded(<<add_phone(book[1], p).value>>)
        /\ Called("add_phone", <<p>>, add_phone(book[1], p), <<>>)

CallRemovePhone ==
    /\ pc = "record"
    /\ \E p \in PhoneInputs :
        Called("remove_phone", <<p>>, remove_phone(book[1], p), <<>>)

CallEditPhone ==
    /\ pc = "record"
    /\ \E old \in PhoneInputs, new \in PhoneInputs :
        Called("edit_phone", <<old, new>>, edit_phone(book[1], old, new), <<>>)

CallFindPhone ==
    /\ pc = "record"
    /\ \E p \in PhoneInputs :
        Called("find_phone", <<p>>, Ok(book[1]),
               IF find_phone(book[1], p).found THEN <<find_phone(book[1], p).value>> ELSE <<>>)

CallAddBirthday ==
    /\ pc = "record"
    /\ \E b \in {BSat, BLeap, BBad1} :
        Called("add_birthday", <<b>>, add_birthday(book[1], b), <<>>)

NextRecord ==
    \/ CallAddPhone
    \/ CallRemovePhone
    \/ CallEditPhone
    \/ CallFindPhone
    \/ CallAddBirthday

SpecRecord == InitRecord /\ [][NextRecord]_vars

-----------------------------------------------------------------------------
(* The AddressBook methods and the birthdays handler, called directly      *)

InitBook ==
    /\ book = <<>>
    /\ pc = "book"
    /\ line = <<>>
    /\ out = NoOutput
    /\ call = NoCall
    /\ ret = NoRet
    /\ everAdded = {}

\* book.add_record(Record(name)).
CallAddRecord ==
    /\ pc = "book"
    /\ \E n \in Names :
        /\ book' = add_record(book, Record(n))
        /\ call' = [op |-> "add_record", args |-> <<n>>, day |-> NoDay]
    /\ ret' = NoRet
    /\ UNCHANGED <<pc, line, out, everAdded>>

\* book.find(name).add_birthday(birthday), for a name the book holds.
CallSetBirthday ==
    /\ pc = "book"
    /\ \E n \in Names, b \in BirthdayInputs :
        LET i == IndexOf(book, n)
            r == add_birthday(book[i], b)
        IN  /\ i # 0
            /\ book' = [book EXCEPT ![i] = r.value]
            /\ call' = [op |-> "add_birthday", args |-> <<n, b>>, day |-> NoDay]
            /\ ret' = [exc |-> r.exc, msg |-> r.msg, value |-> <<>>, handler |-> NoHandler]
    /\ UNCHANGED <<pc, line, out, everAdded>>

\* book.delete(name).
CallDelete ==
    /\ pc = "book"
    /\ \E n \in Names :
        /\ book' = delete(book, n)
        /\ call' = [op |-> "delete", args |-> <<n>>, day |-> NoDay]
    /\ ret' = NoRet
    /\ UNCHANGED <<pc, line, out, everAdded>>

\* The handler was called on day: r is what its call of get_upcoming_birthdays gave, h
\* what the decorated handler did.
BirthdaysCalled(day, r, h) ==
    /\ book' = h.data
    /\ call' = [op |-> "birthdays", args |-> <<>>, day |-> day]
    /\ ret' = [exc |-> r.exc, msg |-> r.msg, value |-> r.value,
               handler |-> [exc |-> h.exc, ret |-> h.ret]]
    /\ pc' = IF h.exc = "none" THEN "book" ELSE "crashed"

\* birthdays([], book) on the day datetime.today() gives.  ret holds what the handler's
\* call of book.get_upcoming_birthdays() returned or raised and, in ret.handler, what
\* the decorated handler returned or let through.
CallBirthdays ==
    /\ pc = "book"
    /\ \E day \in Todays :
        BirthdaysCalled(day, get_upcoming_birthdays(book, day), birthdays(<<>>, book, day))
    /\ UNCHANGED <<line, out, everAdded>>

NextBook ==
    \/ CallAddRecord
    \/ CallSetBirthday
    \/ CallDelete
    \/ CallBirthdays

SpecBook == InitBook /\ [][NextBook]_vars

-----------------------------------------------------------------------------
(* Properties of the upcoming-birthdays query (SpecBook)                   *)

\* The month and day a record's stored birthday parses to.
BirthDate(rec) == Strptime(rec.birthday.value).date

\* The offsets k in 0..7 for which day + k falls on the record's birthday.
DueOffsets(rec, day) ==
    {k \in 0..7 : AddDays(day, k).m = BirthDate(rec).m /\ AddDays(day, k).d = BirthDate(rec).d}

\* The record has a birthday whose next occurrence is today or one of the next 7 days.
Due(rec, day) == rec.birthday.some /\ DueOffsets(rec, day) # {}

\* That occurrence.
DueOccurrence(rec, day) == AddDays(day, CHOOSE k \in DueOffsets(rec, day) : TRUE)

\* Saturday to Monday, Sunday to Monday, any other day kept.
ToMonday(occurrence) ==
    CASE Weekday(occurrence) = 5 -> AddDays(occurrence, 2)
      [] Weekday(occurrence) = 6 -> AddDays(occurrence, 1)
      [] OTHER -> occurrence

\* The names the last query's result holds; none when the query raised.
IncludedNames ==
    IF ret.exc = "none" THEN {ret.value[j].name : j \in 1..Len(ret.value)} ELSE {}

\* C1: whatever the directory and today, get_upcoming_birthdays includes a record in
\* its result if and only if the record has a birthday and 0 <= delta <= 7, delta
\* being the days from today to the birthday's next occurrence.
C1_IncludedIffDue ==
    call.op = "birthdays" =>
        \A i \in 1..Len(book) :
            (book[i].name \in IncludedNames) <=> Due(book[i], call.day)

\* The records due on day, in the directory's order.
DueRecords(day) == SelectSeq(book, LAMBDA r : Due(r, day))

\* Entry e reports record rec on day: its date is the occurrence moved off the weekend,
\* formatted DD.MM.YYYY, and reads back as a date that is no Saturday or Sunday.
ReportsShifted(e, rec, day) ==
    /\ e.name = rec.name
    /\ e.birthday = Strftime(ToMonday(DueOccurrence(rec, day)))
    /\ Strptime(e.birthday).exc = "none"
    /\ Weekday(Strptime(e.birthday).date) \notin {5, 6}

\* C2: every entry get_upcoming_birthdays returns reports the unshifted occurrence + 2
\* days when that is a Saturday, + 1 day when it is a Sunday, and the occurrence itself
\* otherwise, so never a Saturday or Sunday; and the entries are exactly the records
\* whose unshifted occurrence is at most 7 days ahead, whatever the reported date.
C2_ReportedDateShifted ==
    (call.op = "birthdays" /\ ret.exc = "none") =>
        /\ Len(ret.value) = Len(DueRecords(call.day))
        /\ \A j \in 1..Len(ret.value) :
               ReportsShifted(ret.value[j], DueRecords(call.day)[j], call.day)

\* C2's case: a Saturday occurrence 7 days ahead is returned, and reported as the
\* Monday 9 days ahead.
C2_Witness ==
    /\ call.op = "birthdays"
    /\ ret.exc = "none"
    /\ call.day = [y |-> 2023, m |-> 12, d |-> 30]
    /\ \E j \in 1..Len(ret.value) :
           ret.value[j].birthday = Strftime([y |-> 2024, m |-> 1, d |-> 8])

\* The record's birthday is 29 February.
IsLeapDay(rec) == rec.birthday.some /\ BirthDate(rec).m = 2 /\ BirthDate(rec).d = 29

\* The year the occurrence is constructed in (today's, or the next after the
\* roll-forward) is not a leap year.
ConstructedInCommonYear(day) ==
    \/ ~IsLeap(day.y)
    \/ DateLess([y |-> day.y, m |-> 2, d |-> 29], day) /\ ~IsLeap(day.y + 1)

\* The last call was the birthdays handler's, on a directory and a day of C9's case.
LeapDayCase ==
    /\ call.op = "birthdays"
    /\ ConstructedInCommonYear(call.day)
    /\ \E i \in 1..Len(book) : IsLeapDay(book[i])

\* C9 as stated: in that case get_upcoming_birthdays raises a date-construction error
\* that input_error does not catch, so that it propagates out of the birthdays handler
\* instead of being returned as a message.
C9_ErrorEscapesHandler ==
    LeapDayCase => (ret.exc = "ValueError" /\ ret.handler.exc # "none")

\* C9 as amended: in that case get_upcoming_birthdays raises a ValueError and returns
\* no result; input_error catches it, and the birthdays handler returns the error's
\* text as its message.
C9_ErrorReturnedAsMessage ==
    LeapDayCase =>
        /\ ret.exc = "ValueError"
        /\ ret.handler.exc = "none"
        /\ ret.handler.ret = Lit("day is out of range for month")

\* C9's case after the roll-forward: the query of 1 March 2024 with a record born on
\* 29 February in the directory.
C9_Witness ==
    /\ LeapDayCase
    /\ call.day = [y |-> 2024, m |-> 3, d |-> 1]

-----------------------------------------------------------------------------
(* Properties of the Record methods (SpecRecord)                           *)

\* The first position of phone in phones, 0 when it is not there.
FirstMatch(phones, phone) ==
    IF \E i \in 1..Len(phones) : phones[i] = phone
    THEN CHOOSE i \in 1..Len(phones) :
             phones[i] = phone /\ \A j \in 1..(i - 1) : phones[j] # phone
    ELSE 0

\* The step is a call edit_phone(old, new) that failed and left the phones as they were
\* (old not stored, or new refused by Phone), or succeeded and replaced the first
\* entry equal to old, and only it, by new.
EditIsAtomic(before, after, old, new, failed) ==
    LET i == FirstMatch(before, old)
    IN  IF i = 0 \/ Phone(new).exc # "none"
        THEN failed /\ after = before
        ELSE /\ ~failed
             /\ Len(after) = Len(before)
             /\ after[i] = new
             /\ \A j \in 1..Len(before) : j # i => after[j] = before[j]

C6_StoredPhonesAsciiDigits ==
    \A i \in 1..Len(book) : \A j \in 1..Len(book[i].phones) :
        /\ Len(book[i].phones[j]) = 10
        /\ \A k \in 1..Len(book[i].phones[j]) : book[i].phones[j][k] \in AsciiDigits

-----------------------------------------------------------------------------
(* Properties of the command loop (Spec)                                   *)

\* The command and arguments of the last line read, when parse_input returned.
LastParsed == Parsed[line].exc = "none"

LastCommand == Parsed[line].command

LastArgs == Parsed[line].args

\* The argument tokens each command that takes arguments requires.
Required(command) ==
    CASE command = cAdd -> 2
      [] command = cChange -> 3
      [] command = cPhone -> 1
      [] command = cAddBirthday -> 2
      [] command = cShowBirthday -> 1
      [] OTHER -> 0

\* C4: a command that takes arguments (add, change, phone, add-birthday,
\* show-birthday), given fewer argument tokens than it requires, answers exactly
\* "Not enough arguments." and leaves the directory unchanged.
C4_TooFewArguments ==
    [][(Parsed[line'].exc = "none" /\ pc = "input"
            /\ Len(Parsed[line'].args) < Required(Parsed[line'].command))
         => (out' = Printed(Lit("Not enough arguments.")) /\ book' = book)]_vars

\* C5: the loop ends only on an explicit close or exit command: after any other line
\* (empty, blank, unrecognized, or one whose handler fails) no error has escaped and
\* the loop is back at reading the next command.
C5_LoopEndsOnlyOnExit ==
    pc # "input" =>
        (pc = "done" /\ LastParsed /\ LastCommand \in {cClose, cExit})

\* The record stored under name, or a fresh record when there is none.
Stored(data, name) ==
    IF IndexOf(data, name) = 0 THEN Record(name) ELSE data[IndexOf(data, name)]

\* C7: an add that succeeds appends its phone to the name's single record and keeps
\* the phones and birthday stored before; the first successful add of a name answers
\* "Contact added." and every later one "Contact updated.".
C7_AddUpdates ==
    [][(pc = "input" /\ Parsed[line'].exc = "none" /\ Parsed[line'].command = cAdd
            /\ out' \in {Printed(Lit("Contact added.")), Printed(Lit("Contact updated."))})
         => LET name == Parsed[line'].args[1]
                phone == Parsed[line'].args[2]
            IN  /\ Cardinality({i \in 1..Len(book') : book'[i].name = name}) = 1
                /\ Stored(book', name).phones = Append(Stored(book, name).phones, phone)
                /\ Stored(book', name).birthday = Stored(book, name).birthday
                /\ (out' = Printed(Lit("Contact added."))) <=> (name \notin everAdded)]_vars

\* C8: when the user enters the command birthdays, the loop calls the query and
\* prints one line "name - DD.MM.YYYY" per entry, or "No birthdays in the next 7
\* days." when there is none.
C8_BirthdaysCommandAnswers ==
    (pc = "input" /\ LastParsed /\ LastCommand = cBirthdays) =>
        \E day \in Todays : out = Printed(birthdays(LastArgs, book, day).ret)

\* C10: an add that fails because its phone is invalid leaves the directory unchanged:
\* an unknown name is still unknown, a known record keeps its phones and birthday.
C10_FailedAddChangesNothing ==
    [][(pc = "input" /\ Parsed[line'].exc = "none" /\ Parsed[line'].command = cAdd
            /\ out' = Printed(Lit("Phone number must contain exactly 10 digits")))
         => book' = book]_vars

=============================================================================
